---- MODULE Spec2Model ----
(***************************************************************************)
(* files_merger (src/main.go): run() starts one sink goroutine            *)
(* (receiveAndWrite) draining outputCh into the output file, then calls   *)
(* parse() on every root in turn; parse() walks the root with             *)
(* filepath.WalkDir and sends one framed record per selected file.        *)
(*                                                                         *)
(* Strings are sequences of one-character strings, so that filepath.Ext,  *)
(* filepath.Join, the header formatting and the output bytes are computed *)
(* character by character.                                                 *)
(***************************************************************************)
EXTENDS Integers, Sequences, FiniteSets, TLC

VARIABLES
    paths,          \* flag.Args(): the list of roots
    extensions,     \* exts as returned by prepareExtensions
    ignDirs,        \* ignDirs as returned by prepareIgnoredDirs
    ignoreRegExp,   \* *ignoreRegExp, the pattern source
    mainPc,         \* position of the main goroutine inside run()/parse()
    rootIdx,        \* index into paths of the root being (or next to be) parsed
    stack,          \* recursion of walkDir: one frame of pending entries per open directory
    buf,            \* parse's bytes.Buffer
    btsCopy,        \* the slice the walker is about to send
    heap,           \* the byte arrays slices refer to, by array
    pathCache,      \* package-level map of paths already sent
    outputCh,       \* buffered channel contents: slices
    closed,         \* close(outputCh) has been executed
    sinkPc,         \* position of the receiveAndWrite goroutine
    data,           \* the slice the sink has received and not yet written
    sinkErr,        \* what receiveAndWrite returned
    file,           \* bytes of the output file
    result,         \* what run() returned
    sent,           \* history: every record sent on outputCh, in order
    visited,        \* history: every invocation of the walk callback
    reported,       \* history: the walker errors printed by run()
    writeCalls      \* history: every file.Write call, its argument and whether it succeeded

vars == <<paths, extensions, ignDirs, ignoreRegExp, mainPc, rootIdx, stack, buf,
          btsCopy, heap, pathCache, outputCh, closed, sinkPc, data, sinkErr, file,
          result, sent, visited, reported, writeCalls>>

\* Largest number of roots on the command line.
MaxRoots == 2

\* make(chan []byte, 4)
ChanCap == 4

----------------------------------------------------------------------------
(* Strings *)

Sep == "/"

NL == "\n"

\* -comment default
commentSymbol == <<"/", "/">>

\* -ignore-reg-exp default \b\B: matches nothing
NoMatchRe == <<"\\", "b", "\\", "B">>

\* a literal pattern: matches every name that contains _t
LitRe == <<"_", "t">>

\* a pattern regexp.Compile rejects
BadRe == <<"(">>

IsPrefix(p, s) == Len(p) <= Len(s) /\ SubSeq(s, 1, Len(p)) = p

Contains(s, p) == \E i \in 1..(Len(s) - Len(p) + 1) : SubSeq(s, i, i + Len(p) - 1) = p

\* regexp.Compile(*ignoreRegExp) succeeds
CompileOK(re) == re # BadRe

\* ignoreFilenameRegex.MatchString(name)
MatchString(re, name) == IF re = NoMatchRe THEN FALSE ELSE Contains(name, re)

RECURSIVE ExtFrom(_, _)
ExtFrom(name, i) ==
    IF i = 0 THEN <<>>
    ELSE IF name[i] = Sep THEN <<>>
    ELSE IF name[i] = "." THEN SubSeq(name, i, Len(name))
    ELSE ExtFrom(name, i - 1)

\* filepath.Ext: the suffix of the last path element starting at its last dot
Ext(name) == ExtFrom(name, Len(name))

\* filepath.Join of a clean directory path and an entry name
Join(dir, name) == dir \o <<Sep>> \o name

----------------------------------------------------------------------------
(* The file tree the program runs on.  Node 0 stands for the working       *)
(* directory; entries are listed in the order os.ReadDir returns them      *)
(* (sorted by file name).                                                   *)

Nodes == 1..16

NodeName ==
    [n \in Nodes |->
        CASE n = 1  -> <<"a">>
          [] n = 2  -> <<".", "g", "i", "t">>
          [] n = 3  -> <<"o">>
          [] n = 4  -> <<"h", ".", "g", "o">>
          [] n = 5  -> <<"f", ".", "g", "o">>
          [] n = 6  -> <<"g", ".", "t", "x", "t">>
          [] n = 7  -> <<"s">>
          [] n = 8  -> <<"k", ".", "g", "o">>
          [] n = 9  -> <<"t", "_", "t", ".", "g", "o">>
          [] n = 10 -> <<"u">>
          [] n = 11 -> <<"w", ".", "g", "o">>
          [] n = 12 -> <<"v", ".", "g", "o">>
          [] n = 13 -> <<"b">>
          [] n = 14 -> <<"m", ".", "g", "o">>
          [] n = 15 -> <<"n", ".", "g", "o">>
          [] n = 16 -> <<"p", ".", "g", "o">>]

NodeParent ==
    [n \in Nodes |->
        CASE n \in {1, 13}          -> 0
          [] n \in {2, 5, 6, 7, 10, 12} -> 1
          [] n = 3                  -> 2
          [] n = 4                  -> 3
          [] n \in {8, 9}           -> 7
          [] n = 11                 -> 10
          [] n \in {14, 15, 16}     -> 13]

DirNodes == {1, 2, 3, 7, 10, 13}

IsDir(n) == n \in DirNodes

\* os.ReadDir(dir): the entries, sorted by name
Entries ==
    [n \in DirNodes |->
        CASE n = 1  -> <<2, 5, 6, 7, 10, 12>>
          [] n = 2  -> <<3>>
          [] n = 3  -> <<4>>
          [] n = 7  -> <<8, 9>>
          [] n = 10 -> <<11>>
          [] n = 13 -> <<14, 15, 16>>]

\* os.ReadFile(path) for a file: its bytes
Content(n) == <<"#">> \o SubSeq(NodeName[n], 1, 1)

\* files whose os.ReadFile may fail, directories whose os.ReadDir may fail
ReadFail == {8}

ListFail == {10}

RECURSIVE FullPath(_)
FullPath(n) ==
    IF NodeParent[n] = 0 THEN NodeName[n]
    ELSE Join(FullPath(NodeParent[n]), NodeName[n])

\* a root that names nothing on disk
MissingRoot == <<"z">>

\* os.Lstat(root): the node the path names, 0 when there is none
Lstat(p) == IF \E n \in Nodes : FullPath(n) = p
            THEN CHOOSE n \in Nodes : FullPath(n) = p
            ELSE 0

RootChoices ==
    {FullPath(1), FullPath(13), FullPath(7), FullPath(6), FullPath(2), FullPath(3),
     MissingRoot}

FilterChoices ==
    { [exts |-> << <<".", "g", "o">> >>,
       dirs |-> << <<".", "g", "i", "t">>, <<".", "i", "d", "e", "a">> >>,
       re   |-> NoMatchRe],
      [exts |-> << <<".", "g", "o">>, <<".", "t", "x", "t">> >>,
       dirs |-> << <<".", "g", "i", "t">> >>,
       re   |-> LitRe],
      [exts |-> << <<".", "g", "o">> >>,
       dirs |-> << <<".", "g", "i", "t">> >>,
       re   |-> BadRe] }

RECURSIVE SeqsUpTo(_, _)
SeqsUpTo(S, n) ==
    IF n = 0 THEN {<<>>}
    ELSE LET shorter == SeqsUpTo(S, n - 1)
         IN  shorter \cup {Append(s, x) : s \in shorter, x \in S}

----------------------------------------------------------------------------
(* Pure helpers of main.go *)

\* the elements of a slice
Range(s) == {s[i] : i \in 1..Len(s)}

\* checkExt accepting every name that has an extension
checkExtAny(name, allowedExts) == Ext(name) # <<>>

\* checkExt: the name's extension equals one of the allowed ones
checkExt(name, allowedExts) == Ext(name) \in Range(allowedExts)

\* isIgnoredDir with the IsDir test inverted
isIgnoredDirInverted(node, ignoredDirs) ==
    ~IsDir(node) /\ NodeName[node] \in Range(ignoredDirs)

\* an entry is [path, node]; node 0 is the nil DirEntry
isIgnoredDir(node, ignoredDirs) ==
    IsDir(node) /\ NodeName[node] \in Range(ignoredDirs)

\* fmt.Fprintf(&buf, "%s %s\n", commentSymbol, path)
WriteHeader(b, path) == b \o commentSymbol \o <<" ">> \o path \o <<NL>>

\* fmt.Fprintf(&buf, "%s\n", string(data))
WriteContent(b, bytes) == b \o bytes \o <<NL>>

\* A []byte is a slice [arr, len]: the first len bytes of the array arr.
\* Two slices of one array show the same bytes, whoever wrote them.

\* the array behind parse's bytes.Buffer
BufArr == 0

\* a nil []byte
NilSlice == [arr |-> BufArr - 1, len |-> 0]

\* the bytes a slice shows: those of its array written so far, up to len
Deref(sl) ==
    IF sl.arr \in DOMAIN heap
    THEN SubSeq(heap[sl.arr], 1, IF sl.len < Len(heap[sl.arr]) THEN sl.len ELSE Len(heap[sl.arr]))
    ELSE <<>>

\* an array after bytes were written into it from offset off on
Stored(arr, off, bytes) ==
    SubSeq(arr, 1, off) \o bytes \o SubSeq(arr, off + Len(bytes) + 1, Len(arr))

\* the array make([]byte, n) allocates: one no other slice refers to
NewArr == Len(sent) + 1

\* the walker sends buf.Bytes() itself
SentSliceOfBuf(n) == [arr |-> BufArr, len |-> n]

\* btsCopy := make([]byte, len(buf.Bytes())); copy(btsCopy, buf.Bytes())
SentSlice(n) == [arr |-> NewArr, len |-> n]

----------------------------------------------------------------------------

Init ==
    /\ paths \in SeqsUpTo(RootChoices, MaxRoots)
    /\ \E f \in FilterChoices :
          /\ extensions = f.exts
          /\ ignDirs = f.dirs
          /\ ignoreRegExp = f.re
    /\ mainPc = "start"
    /\ rootIdx = 1
    /\ stack = <<>>
    /\ buf = <<>>
    /\ btsCopy = NilSlice
    /\ heap = (BufArr :> <<>>)
    /\ pathCache = {}
    /\ outputCh = <<>>
    /\ closed = FALSE
    /\ sinkPc = "idle"
    /\ data = NilSlice
    /\ sinkErr = "nil"
    /\ file = <<>>
    /\ result = "none"
    /\ sent = <<>>
    /\ visited = <<>>
    /\ reported = <<>>
    /\ writeCalls = <<>>

----------------------------------------------------------------------------
(* run(): configuration, start of the sink, the loop over the roots *)

\* len(paths) == 0: run returns before anything is started
RunNoPaths ==
    /\ mainPc = "start"
    /\ Len(paths) = 0
    /\ mainPc' = "returned"
    /\ result' = "pathsErr"
    /\ UNCHANGED <<paths, extensions, ignDirs, ignoreRegExp, rootIdx, stack, buf,
                   btsCopy, heap, pathCache, outputCh, closed, sinkPc, data, sinkErr,
                   file, sent, visited, reported, writeCalls>>

\* outputCh := make(chan []byte, 4); wg.Go(receiveAndWrite)
StartSink ==
    /\ mainPc = "start"
    /\ Len(paths) > 0
    /\ sinkPc' = "recv"
    /\ mainPc' = "compile"
    /\ UNCHANGED <<paths, extensions, ignDirs, ignoreRegExp, rootIdx, stack, buf,
                   btsCopy, heap, pathCache, outputCh, closed, data, sinkErr, file,
                   result, sent, visited, reported, writeCalls>>

\* reg, err := regexp.Compile(*ignoreRegExp); if err != nil { return err }
CompileRegexp ==
    /\ mainPc = "compile"
    /\ IF CompileOK(ignoreRegExp)
       THEN mainPc' = "loop" /\ result' = result
       ELSE mainPc' = "returned" /\ result' = "regexErr"
    /\ UNCHANGED <<paths, extensions, ignDirs, ignoreRegExp, rootIdx, stack, buf,
                   btsCopy, heap, pathCache, outputCh, closed, sinkPc, data, sinkErr,
                   file, sent, visited, reported, writeCalls>>

----------------------------------------------------------------------------
(* parse(): one filepath.WalkDir per root.  The top frame of stack holds   *)
(* the entries of the innermost open directory that are still to be        *)
(* visited; its head is the entry the callback is invoked on next.         *)

Entry(p, n) == [path |-> p, node |-> n]

\* the entries of directory e in listing order, each with its joined path
Listing(e) ==
    [i \in 1..Len(Entries[e.node]) |->
        Entry(Join(e.path, NodeName[Entries[e.node][i]]), Entries[e.node][i])]

Top == stack[Len(stack)]

Cur == Head(Top)

\* walkDir returns for the current entry: drop it from its frame
Popped == [stack EXCEPT ![Len(stack)] = Tail(@)]

RECURSIVE Unwind(_)
\* walkDir returns from every directory whose entries are exhausted
Unwind(stk) ==
    IF stk # <<>> /\ stk[Len(stk)] = <<>>
    THEN Unwind(SubSeq(stk, 1, Len(stk) - 1))
    ELSE stk

\* the walk goes on with stack stk; when nothing is left WalkDir and parse
\* return nil and run's loop moves to the next root
Continue(stk) ==
    /\ stack' = Unwind(stk)
    /\ IF Unwind(stk) = <<>>
       THEN mainPc' = "loop" /\ rootIdx' = rootIdx + 1
       ELSE mainPc' = "walk" /\ rootIdx' = rootIdx

\* the loop over the roots ends at the first failed parse
AfterErrorStop(i) == Len(paths) + 1

\* run's loop after a failed parse: print the error and continue with the
\* next root
AfterError(i) == i + 1

\* the callback returns a non-nil error: WalkDir and parse return it, run
\* prints it and moves to the next root
Abort(kind, path) ==
    /\ stack' = <<>>
    /\ mainPc' = "loop"
    /\ reported' = Append(reported, [root |-> rootIdx, err |-> kind, path |-> path])
    /\ rootIdx' = AfterError(rootIdx)

\* the callback returns early for the root of the walk
CheckedBelowRoot(e) ==
    /\ e.path # paths[rootIdx]
    /\ ~IsDir(e.node)
    /\ ~MatchString(ignoreRegExp, NodeName[e.node])
    /\ checkExt(NodeName[e.node], extensions)

\* the callback gets as far as the pathCache test for this entry: a file
\* whose name the pattern does not match and whose extension is allowed
Checked(e) ==
    /\ ~IsDir(e.node)
    /\ ~MatchString(ignoreRegExp, NodeName[e.node])
    /\ checkExt(NodeName[e.node], extensions)

\* if pathCache[path] { return nil }
Seen(path) == path \in pathCache

\* one invocation of the callback, with the outcome of its pathCache test
\* when it makes one
Visit(e) ==
    visited' = Append(visited,
                      [root |-> rootIdx, path |-> e.path, node |-> e.node,
                       check |-> IF ~Checked(e) THEN "none"
                                 ELSE IF Seen(e.path) THEN "seen" ELSE "new"])

\* one buffer for all the roots, declared outside parse
OneBuf == UNCHANGED <<buf, heap>>

\* buf := bytes.Buffer{}: every call of parse has an empty buffer of its own
NewBuf == buf' = <<>> /\ heap' = [heap EXCEPT ![BufArr] = <<>>]

\* parse(path, ...): buf := bytes.Buffer{}; WalkDir: os.Lstat(root).  For a
\* root that does not exist WalkDir calls fn(root, nil, err), and the
\* callback's first statement isIgnoredDir(entry, ...) calls entry.IsDir()
\* on the nil DirEntry: a nil dereference that panics the process.
StartWalk ==
    /\ mainPc = "loop"
    /\ rootIdx <= Len(paths)
    /\ NewBuf
    /\ IF Lstat(paths[rootIdx]) = 0
       THEN /\ mainPc' = "panicked"
            /\ stack' = <<>>
            /\ visited' = Append(visited, [root |-> rootIdx, path |-> paths[rootIdx],
                                            node |-> 0, check |-> "none"])
       ELSE /\ mainPc' = "walk"
            /\ stack' = << <<Entry(paths[rootIdx], Lstat(paths[rootIdx]))>> >>
            /\ visited' = visited
    /\ UNCHANGED <<paths, extensions, ignDirs, ignoreRegExp, rootIdx, btsCopy,
                   pathCache, outputCh, closed, sinkPc, data, sinkErr, file,
                   result, sent, reported, writeCalls>>

\* if isIgnoredDir(entry, ignoredDirs) { return filepath.SkipDir }
WalkSkipDir ==
    /\ mainPc = "walk"
    /\ isIgnoredDir(Cur.node, ignDirs)
    /\ Visit(Cur)
    /\ Continue(Popped)
    /\ UNCHANGED <<paths, extensions, ignDirs, ignoreRegExp, buf, btsCopy, heap,
                   pathCache, outputCh, closed, sinkPc, data, sinkErr, file,
                   result, sent, reported, writeCalls>>

\* a directory that is not ignored: the callback returns nil and walkDir
\* lists it; its entries are visited before its later siblings
WalkEnterDir ==
    /\ mainPc = "walk"
    /\ IsDir(Cur.node)
    /\ ~isIgnoredDir(Cur.node, ignDirs)
    /\ Visit(Cur)
    /\ Continue(Append(Popped, Listing(Cur)))
    /\ UNCHANGED <<paths, extensions, ignDirs, ignoreRegExp, buf, btsCopy, heap,
                   pathCache, outputCh, closed, sinkPc, data, sinkErr, file,
                   result, sent, reported, writeCalls>>

\* os.ReadDir fails: walkDir calls the callback a second time with the
\* error, which the callback returns (if err != nil { return err })
WalkListErr ==
    /\ mainPc = "walk"
    /\ IsDir(Cur.node)
    /\ ~isIgnoredDir(Cur.node, ignDirs)
    /\ Cur.node \in ListFail
    /\ visited' = visited \o
          <<[root |-> rootIdx, path |-> Cur.path, node |-> Cur.node, check |-> "none"],
            [root |-> rootIdx, path |-> Cur.path, node |-> Cur.node, check |-> "none"]>>
    /\ Abort("list", Cur.path)
    /\ UNCHANGED <<paths, extensions, ignDirs, ignoreRegExp, buf, btsCopy, heap,
                   pathCache, outputCh, closed, sinkPc, data, sinkErr, file,
                   result, sent, writeCalls>>

\* the file passes the ignore pattern, the extension list and pathCache
Selected(e) == Checked(e) /\ ~Seen(e.path)

\* a file the callback returns nil for without sending anything
WalkSkipFile ==
    /\ mainPc = "walk"
    /\ ~IsDir(Cur.node)
    /\ ~Selected(Cur)
    /\ Visit(Cur)
    /\ Continue(Popped)
    /\ UNCHANGED <<paths, extensions, ignDirs, ignoreRegExp, buf, btsCopy, heap,
                   pathCache, outputCh, closed, sinkPc, data, sinkErr, file,
                   result, sent, reported, writeCalls>>

\* the header is formatted into buf, then os.ReadFile fails: return err
WalkReadErr ==
    /\ mainPc = "walk"
    /\ Selected(Cur)
    /\ Cur.node \in ReadFail
    /\ Visit(Cur)
    /\ buf' = WriteHeader(buf, Cur.path)
    /\ heap' = [heap EXCEPT ![BufArr] = Stored(@, 0, buf')]
    /\ Abort("read", Cur.path)
    /\ UNCHANGED <<paths, extensions, ignDirs, ignoreRegExp, btsCopy, pathCache,
                   outputCh, closed, sinkPc, data, sinkErr, file, result, sent,
                   writeCalls>>

\* header and content are formatted into buf and copied into btsCopy; the
\* callback is now at  output <- btsCopy
WalkBuild ==
    /\ mainPc = "walk"
    /\ Selected(Cur)
    /\ Visit(Cur)
    /\ buf' = WriteContent(WriteHeader(buf, Cur.path), Content(Cur.node))
    /\ btsCopy' = SentSlice(Len(buf'))
    /\ heap' = [a \in DOMAIN heap \cup {NewArr} |->
                  IF a = BufArr THEN Stored(heap[BufArr], 0, buf')
                  ELSE IF a = NewArr THEN buf' ELSE heap[a]]
    /\ mainPc' = "send"
    /\ UNCHANGED <<paths, extensions, ignDirs, ignoreRegExp, rootIdx, stack,
                   pathCache, outputCh, closed, sinkPc, data, sinkErr, file,
                   result, sent, reported, writeCalls>>

\* the buffer is not reset after the send
KeepBuf == buf' = buf

\* buf.Reset()
ResetBuf == buf' = <<>>

\* the path is not recorded after the send
MarkPathNot(path) == pathCache' = pathCache

\* pathCache[path] = true
MarkPath(path) == pathCache' = pathCache \cup {path}

\* a send that never blocks
HasRoomAlways == TRUE

\* a send on the buffered channel goes through when a slot is free
HasRoom == Len(outputCh) < ChanCap

\* output <- btsCopy (blocks while the channel is full); buf.Reset();
\* pathCache[path] = true; return nil
Send ==
    /\ mainPc = "send"
    /\ HasRoom
    /\ outputCh' = Append(outputCh, btsCopy)
    /\ sent' = Append(sent, [root |-> rootIdx, path |-> Cur.path,
                             node |-> Cur.node, bytes |-> Deref(btsCopy),
                             slice |-> btsCopy])
    /\ ResetBuf
    /\ btsCopy' = NilSlice
    /\ MarkPath(Cur.path)
    /\ Continue(Popped)
    /\ UNCHANGED <<paths, extensions, ignDirs, ignoreRegExp, heap, closed, sinkPc,
                   data, sinkErr, file, result, visited, reported, writeCalls>>

\* the loop over paths is over: close(outputCh)
CloseCh ==
    /\ mainPc = "loop"
    /\ rootIdx > Len(paths)
    /\ closed' = TRUE
    /\ mainPc' = "wait"
    /\ UNCHANGED <<paths, extensions, ignDirs, ignoreRegExp, rootIdx, stack, buf,
                   btsCopy, heap, pathCache, outputCh, sinkPc, data, sinkErr, file,
                   result, sent, visited, reported, writeCalls>>

\* run does not wait for the sink
SinkNotJoined == TRUE

\* wg.Wait() blocks until receiveAndWrite has returned
SinkJoined == sinkPc = "done"

\* a walker error, when there is one, wins over the sink's
WaitErrWalkerFirst == IF reported # <<>> THEN "walkErr" ELSE sinkErr

\* the error wg.Wait() hands to run: the one receiveAndWrite returned
WaitErr == sinkErr

\* if err := wg.Wait(); err != nil { return err }; return nil
Wait ==
    /\ mainPc = "wait"
    /\ SinkJoined
    /\ result' = WaitErr
    /\ mainPc' = "returned"
    /\ UNCHANGED <<paths, extensions, ignDirs, ignoreRegExp, rootIdx, stack, buf,
                   btsCopy, heap, pathCache, outputCh, closed, sinkPc, data, sinkErr,
                   file, sent, visited, reported, writeCalls>>

----------------------------------------------------------------------------
(* receiveAndWrite: for data := range outputCh { file.Write(data) }.  The  *)
(* goroutine lives as long as the process: it takes no step once main has  *)
(* panicked or returned from run (main then exits the process).            *)

ProcessAlive == mainPc \notin {"panicked", "returned"}

\* a receive that takes the newest buffered element
DequeueNewest(ch) == [val |-> ch[Len(ch)], rest |-> SubSeq(ch, 1, Len(ch) - 1)]

\* a receive takes the oldest buffered element
Dequeue(ch) == [val |-> Head(ch), rest |-> Tail(ch)]

\* data := <-outputCh
SinkRecv ==
    /\ ProcessAlive
    /\ sinkPc = "recv"
    /\ outputCh # <<>>
    /\ data' = Dequeue(outputCh).val
    /\ outputCh' = Dequeue(outputCh).rest
    /\ sinkPc' = "write"
    /\ UNCHANGED <<paths, extensions, ignDirs, ignoreRegExp, mainPc, rootIdx,
                   stack, buf, btsCopy, heap, pathCache, closed, sinkErr, file, result,
                   sent, visited, reported, writeCalls>>

\* _, err2 := file.Write(data): the bytes are appended and the loop goes on
SinkWriteOK ==
    /\ ProcessAlive
    /\ sinkPc = "write"
    /\ file' = file \o Deref(data)
    /\ writeCalls' = Append(writeCalls, [bytes |-> Deref(data), ok |-> TRUE])
    /\ data' = NilSlice
    /\ sinkPc' = "recv"
    /\ UNCHANGED <<paths, extensions, ignDirs, ignoreRegExp, mainPc, rootIdx,
                   stack, buf, btsCopy, heap, pathCache, outputCh, closed, sinkErr,
                   result, sent, visited, reported>>

\* the sink goes on receiving after a failed write
KeepDraining == sinkPc' = "recv"

\* return err2: receiveAndWrite is over
StopDraining == sinkPc' = "done"

\* file.Write fails: return err2
SinkWriteErr ==
    /\ ProcessAlive
    /\ sinkPc = "write"
    /\ writeCalls' = Append(writeCalls, [bytes |-> Deref(data), ok |-> FALSE])
    /\ data' = NilSlice
    /\ sinkErr' = "writeErr"
    /\ StopDraining
    /\ UNCHANGED <<paths, extensions, ignDirs, ignoreRegExp, mainPc, rootIdx,
                   stack, buf, btsCopy, heap, pathCache, outputCh, closed, file, result,
                   sent, visited, reported>>

\* the range loop ends on the closed, drained channel: return nil
SinkExit ==
    /\ ProcessAlive
    /\ sinkPc = "recv"
    /\ outputCh = <<>>
    /\ closed
    /\ sinkPc' = "done"
    /\ UNCHANGED <<paths, extensions, ignDirs, ignoreRegExp, mainPc, rootIdx,
                   stack, buf, btsCopy, heap, pathCache, outputCh, closed, data, sinkErr,
                   file, result, sent, visited, reported, writeCalls>>

----------------------------------------------------------------------------

MainNext ==
    \/ RunNoPaths
    \/ StartSink
    \/ CompileRegexp
    \/ StartWalk
    \/ WalkSkipDir
    \/ WalkEnterDir
    \/ WalkListErr
    \/ WalkSkipFile
    \/ WalkReadErr
    \/ WalkBuild
    \/ Send
    \/ CloseCh
    \/ Wait

SinkNext ==
    \/ SinkRecv
    \/ SinkWriteOK
    \/ SinkWriteErr
    \/ SinkExit

Next == MainNext \/ SinkNext

Spec == Init /\ [][Next]_vars

\* the Go scheduler runs every runnable goroutine eventually
FairSpec == Spec /\ WF_vars(MainNext) /\ WF_vars(SinkNext)

----------------------------------------------------------------------------
(* What the properties are stated over: the output read back as text, and  *)
(* the walk computed by recursion over the tree.                            *)

RECURSIVE SplitLines(_, _, _)
SplitLines(bytes, i, cur) ==
    IF i > Len(bytes) THEN (IF cur = <<>> THEN <<>> ELSE <<cur>>)
    ELSE IF bytes[i] = NL THEN <<cur>> \o SplitLines(bytes, i + 1, <<>>)
    ELSE SplitLines(bytes, i + 1, Append(cur, bytes[i]))

\* the lines of a text, without their newlines
Lines(bytes) == SplitLines(bytes, 1, <<>>)

HeaderPrefix == commentSymbol \o <<" ">>

IsHeaderLine(l) == IsPrefix(HeaderPrefix, l)

\* the paths of the header lines of a text, in order
HeaderPaths(bytes) ==
    LET hs == SelectSeq(Lines(bytes), IsHeaderLine)
    IN  [i \in 1..Len(hs) |-> SubSeq(hs[i], Len(HeaderPrefix) + 1, Len(hs[i]))]

\* "{comment} {path}\n" + content + "\n"
Frame(path, content) == commentSymbol \o <<" ">> \o path \o <<NL>> \o content \o <<NL>>

RECURSIVE Flatten(_)
Flatten(ss) == IF ss = <<>> THEN <<>> ELSE Head(ss) \o Flatten(Tail(ss))

NoRepeat(s) == \A i, j \in 1..Len(s) : i # j => s[i] # s[j]

\* the last element of a path
RECURSIVE BaseFrom(_, _)
BaseFrom(p, i) ==
    IF i = 0 THEN p
    ELSE IF p[i] = Sep THEN SubSeq(p, i + 1, Len(p))
    ELSE BaseFrom(p, i - 1)

Base(p) == BaseFrom(p, Len(p))

IgnoredName(name) == \E k \in 1..Len(ignDirs) : ignDirs[k] = name

RECURSIVE Reach(_, _)
\* the entries a complete walk of entry (p, n) visits, in visiting order:
\* depth first, a directory before its entries, nothing below an ignored one
Reach(p, n) ==
    IF ~IsDir(n) \/ IgnoredName(NodeName[n]) THEN <<[path |-> p, node |-> n]>>
    ELSE <<[path |-> p, node |-> n]>> \o
         Flatten([i \in 1..Len(Entries[n]) |->
                     Reach(p \o <<Sep>> \o NodeName[Entries[n][i]], Entries[n][i])])

\* a file that qualifies: allowed extension, name not matched by the pattern
Qualifies(n) ==
    /\ ~IsDir(n)
    /\ \E k \in 1..Len(extensions) : extensions[k] = Ext(NodeName[n])
    /\ ~MatchString(ignoreRegExp, NodeName[n])

IsQualifying(e) == Qualifies(e.node)

\* the qualifying files of root number r, in depth-first order
Qualifying(r) ==
    LET q == SelectSeq(Reach(paths[r], Lstat(paths[r])), IsQualifying)
    IN  [i \in 1..Len(q) |-> q[i].path]

RECURSIVE Below(_)
\* a node and everything beneath it
Below(n) ==
    IF IsDir(n) THEN {n} \cup UNION {Below(Entries[n][i]) : i \in 1..Len(Entries[n])}
    ELSE {n}

RootsExist == \A r \in 1..Len(paths) : Lstat(paths[r]) # 0

RootsDisjoint ==
    \A r1, r2 \in 1..Len(paths) :
        r1 # r2 => Below(Lstat(paths[r1])) \cap Below(Lstat(paths[r2])) = {}

WriteFailed == \E i \in 1..Len(writeCalls) : ~writeCalls[i].ok

SentPaths == [i \in 1..Len(sent) |-> sent[i].path]

Index(s, x) == CHOOSE i \in 1..Len(s) : s[i] = x

----------------------------------------------------------------------------

\* C1: a path string is sent on the channel at most once, whatever the roots
\* and the interleaving, and the output holds at most one header line for it.
AtMostOnceEmission ==
    /\ NoRepeat(SentPaths)
    /\ NoRepeat(HeaderPaths(file))

\* two roots have reached the same path string and its one record is written
AtMostOnceWitness ==
    /\ mainPc = "returned"
    /\ \E i, j \in 1..Len(visited) :
          /\ visited[i].root # visited[j].root
          /\ visited[i].path = visited[j].path
          /\ Qualifies(visited[i].node)
          /\ \E k \in 1..Len(HeaderPaths(file)) : HeaderPaths(file)[k] = visited[i].path

\* C2: when every root exists, nothing fails and the roots are disjoint, the
\* header paths of the output after run has returned are exactly the files
\* reachable from the roots that are not directories, have an allowed
\* extension, a name the pattern does not match and no pruned directory above
\* them; each appears once.
CompleteAndExact ==
    (/\ mainPc = "returned"
     /\ result = "nil"
     /\ RootsExist
     /\ RootsDisjoint
     /\ reported = <<>>
     /\ ~WriteFailed)
    => /\ Range(HeaderPaths(file)) =
              UNION {Range(Qualifying(r)) : r \in 1..Len(paths)}
       /\ NoRepeat(HeaderPaths(file))

\* two disjoint roots, one with ignored, unlisted and unselected entries,
\* walked without failure
CompleteAndExactWitness ==
    /\ mainPc = "returned"
    /\ result = "nil"
    /\ paths = <<FullPath(1), FullPath(13)>>
    /\ reported = <<>>
    /\ ~WriteFailed
    /\ Len(HeaderPaths(file)) >= 6

PruneBelow(v) ==
    \A k \in (Len(paths[v.root]) + 1)..Len(v.path) :
        v.path[k] = Sep => ~IgnoredName(Base(SubSeq(v.path, 1, k - 1)))

\* the walk of root number r has returned nil
WalkDone(r) ==
    /\ r < rootIdx
    /\ \A k \in 1..Len(reported) : reported[k].root # r

\* C4: once a walk meets a directory with an ignored name, it visits nothing
\* beneath it, so it reads and sends nothing from there, and it still visits
\* the directory's later siblings.
SubtreePruning ==
    /\ \A i \in 1..Len(visited) : PruneBelow(visited[i])
    /\ \A i \in 1..Len(sent) : PruneBelow(sent[i])
    /\ \A i \in 1..Len(visited) :
          LET v == visited[i]
          IN  (/\ WalkDone(v.root)
               /\ v.node # 0
               /\ IsDir(v.node)
               /\ IgnoredName(NodeName[v.node])
               /\ v.path # paths[v.root])
              => \A n \in Range(Entries[NodeParent[v.node]]) :
                    \E j \in 1..Len(visited) :
                        visited[j].root = v.root /\ visited[j].node = n

\* a walk has met a/.git, which holds a .go file, and has gone on to its
\* siblings up to the last one
SubtreePruningWitness ==
    \E i, j \in 1..Len(visited) :
        /\ i < j
        /\ visited[i].root = visited[j].root
        /\ visited[i].node = 2
        /\ visited[j].node = 12
        /\ paths[visited[i].root] = FullPath(1)

\* C5: when the walk of a root has failed on a listing or a read, every later
\* root is still walked in full: each entry of its tree outside ignored
\* directories is visited, each of its qualifying files is sent (by it or by
\* an earlier root), and is in the output once run has returned nil; run does
\* not return before it has been through every root.
FailureIsolation ==
    /\ (mainPc = "returned" /\ reported # <<>>) => rootIdx > Len(paths)
    /\ \A k \in 1..Len(reported) :
           \A j \in (reported[k].root + 1)..Len(paths) :
               WalkDone(j) =>
                   /\ \A e \in Range(Reach(paths[j], Lstat(paths[j]))) :
                         \E i \in 1..Len(visited) :
                             visited[i].root = j /\ visited[i].path = e.path
                   /\ \A q \in Range(Qualifying(j)) :
                         /\ q \in Range(SentPaths)
                         /\ (mainPc = "returned" /\ result = "nil")
                               => q \in Range(HeaderPaths(file))

\* the first root failed, the second one sent records of its own, run
\* returned nil
FailureIsolationWitness ==
    /\ mainPc = "returned"
    /\ result = "nil"
    /\ Len(paths) = 2
    /\ reported # <<>>
    /\ reported[1].root = 1
    /\ \E i \in 1..Len(sent) :
          /\ sent[i].root = 2
          /\ sent[i].path \in Range(HeaderPaths(file))

\* C6: a root that does not exist yields exactly one reported failure and no
\* record, and the run goes on.
MissingRootReported ==
    \A i \in 1..Len(visited) :
        Lstat(paths[visited[i].root]) = 0 =>
            /\ mainPc # "panicked"
            /\ Cardinality({k \in 1..Len(reported) :
                               reported[k].root = visited[i].root}) = 1
            /\ \A k \in 1..Len(sent) : sent[k].root # visited[i].root

\* C7: after a failed write the run ends by returning the write error; until
\* then the main goroutine is never stuck (every root exists).
SinkFailureTerminates ==
    (WriteFailed /\ mainPc # "panicked") =>
        \/ mainPc = "returned" /\ result = "writeErr"
        \/ ENABLED MainNext

\* close(outputCh) comes after the last walk
ClosedAfterWalks ==
    closed => /\ rootIdx > Len(paths)
              /\ stack = <<>>
              /\ mainPc \in {"wait", "returned"}

\* on a nil return every record sent has been written
DrainedOnReturn ==
    (mainPc = "returned" /\ result = "nil") =>
        /\ outputCh = <<>>
        /\ sinkPc = "done"
        /\ Len(writeCalls) = Len(sent)
        /\ \A i \in 1..Len(sent) :
              writeCalls[i].ok /\ writeCalls[i].bytes = sent[i].bytes
        /\ file = Flatten([i \in 1..Len(sent) |-> sent[i].bytes])

\* run has returned or the process has died
Ended == mainPc \in {"returned", "panicked"}

\* C8: if no write fails the run ends; the channel is closed only after the
\* last walk has returned; a nil return comes only after the sink has written
\* every record sent, in full.
TerminationAndDrain ==
    /\ [](ClosedAfterWalks /\ DrainedOnReturn)
    /\ <>(Ended \/ WriteFailed)

\* run has returned nil after the channel held as many records as it can
TerminationAndDrainWitness ==
    /\ mainPc = "returned"
    /\ result = "nil"
    /\ Len(sent) > ChanCap + 2
    /\ Len(writeCalls) = Len(sent)

\* C9: with roots given and a pattern that compiles, run returns an error
\* exactly when a write failed, and that error is the write error; walker
\* errors do not change the outcome.
RunOutcome ==
    (mainPc = "returned" /\ Len(paths) > 0 /\ CompileOK(ignoreRegExp)) =>
        /\ result \in {"nil", "writeErr"}
        /\ result = "writeErr" <=> WriteFailed

\* a walk failed and a write failed too: run returned the write error
RunOutcomeWitness ==
    /\ mainPc = "returned"
    /\ reported # <<>>
    /\ WriteFailed
    /\ result = "writeErr"

\* the position of path p in a walk, 0 when it is not in it
Pos(s, p) == IF \E i \in 1..Len(s) : s[i].path = p
             THEN CHOOSE i \in 1..Len(s) : s[i].path = p
             ELSE 0

\* C10: write calls come in the order of the sends, and the sends of one
\* root in the depth-first order of its walk: of two files of one root, the
\* one visited first has its block first in the output.
WriteOrder ==
    /\ \A i \in 1..Len(writeCalls) : writeCalls[i].bytes = sent[i].bytes
    /\ \A r \in {sent[i].root : i \in 1..Len(sent)} :
          LET walk == Reach(paths[r], Lstat(paths[r]))
          IN  \A i, j \in 1..Len(sent) :
                (i < j /\ sent[i].root = r /\ sent[j].root = r)
                   => /\ Pos(walk, sent[i].path) > 0
                      /\ Pos(walk, sent[i].path) < Pos(walk, sent[j].path)
    /\ LET h == HeaderPaths(file)
       IN  \A i \in 1..Len(h) : i <= Len(sent) /\ h[i] = sent[i].path

\* the blocks of a/f.go, of a file in a subdirectory and of a/v.go are in the
\* output
WriteOrderWitness ==
    /\ Len(paths) > 0
    /\ paths[1] = FullPath(1)
    /\ LET h == HeaderPaths(file)
       IN  /\ Len(h) >= 4
           /\ h[1] = FullPath(5)
           /\ \E i \in 1..Len(h) : h[i] = FullPath(12)

\* the records built by the walker and not yet handed to a write call
InFlight == Len(sent) + (IF mainPc = "send" THEN 1 ELSE 0) - Len(writeCalls)

\* C11: the channel never holds more than 4 records; a walker that wants to
\* send while it is full cannot send; the records built and not yet written
\* are at most capacity + 2 (the buffered ones, the one the blocked walker
\* holds, the one the sink is writing), whatever the size of the tree.
BackpressureBound ==
    /\ Len(outputCh) <= ChanCap
    /\ (mainPc = "send" /\ Len(outputCh) = ChanCap) => ~ENABLED Send
    /\ InFlight <= ChanCap + 2
    /\ InFlight = Len(outputCh) + (IF mainPc = "send" THEN 1 ELSE 0)
                    + (IF sinkPc = "write" THEN 1 ELSE 0)

\* the channel is full, the walker holds one more record and the sink is
\* writing one, with files still to come
BackpressureWitness ==
    /\ Len(outputCh) = ChanCap
    /\ mainPc = "send"
    /\ sinkPc = "write"
    /\ InFlight = ChanCap + 2
    /\ Len(sent) < 7

RECURSIVE SplitPath(_, _, _)
SplitPath(p, i, cur) ==
    IF i > Len(p) THEN <<cur>>
    ELSE IF p[i] = Sep THEN <<cur>> \o SplitPath(p, i + 1, <<>>)
    ELSE SplitPath(p, i + 1, Append(cur, p[i]))

\* the components of a path
Components(p) == SplitPath(p, 1, <<>>)

\* the path in the header line of a record
HeaderPathOf(bytes) == HeaderPaths(bytes)[1]

\* C12 as stated: no component of the header path of any record sent is an
\* ignored directory name, whatever the roots.
NoIgnoredComponent ==
    \A i \in 1..Len(sent) :
        \A k \in 1..Len(Components(HeaderPathOf(sent[i].bytes))) :
            ~IgnoredName(Components(HeaderPathOf(sent[i].bytes))[k])

\* C12 amended: in the header path of every record sent, neither the root
\* directory's own name nor the name of any directory between the root and
\* the file is an ignored name; the components of the root path above the
\* root's own name are not looked at.
NoIgnoredComponentBelowRoot ==
    \A i \in 1..Len(sent) :
        LET h == Components(HeaderPathOf(sent[i].bytes))
            r == Components(paths[sent[i].root])
        IN  /\ Len(h) >= Len(r)
            /\ SubSeq(h, 1, Len(r)) = r
            /\ \A k \in Len(r)..(Len(h) - 1) : ~IgnoredName(h[k])

\* records were sent by a root that lies under an ignored directory and by a
\* root that holds one
NoIgnoredComponentWitness ==
    /\ \E i \in 1..Len(sent) : paths[sent[i].root] = FullPath(3)
    /\ \E i \in 1..Len(sent) : paths[sent[i].root] = FullPath(1)

\* C13: for every path string the pathCache test finds the path new at most
\* once in a run, and finds it seen at every later test, also when the read
\* that followed the first test failed.
CheckSucceedsOnce ==
    \A i, j \in 1..Len(visited) :
        (/\ i < j
         /\ visited[i].path = visited[j].path
         /\ visited[i].check = "new")
        => visited[j].check = "seen"

\* C14: once a write to the output has failed the sink makes no further
\* write call and the output does not change; the records still buffered or
\* sent later are never taken from the channel.
NoWriteAfterFailure ==
    [][WriteFailed =>
          /\ writeCalls' = writeCalls
          /\ file' = file
          /\ sinkPc' = "done"
          /\ Len(outputCh') >= Len(outputCh)]_vars

\* run has returned the write error with records left in the channel
NoWriteAfterFailureWitness ==
    /\ WriteFailed
    /\ mainPc = "returned"
    /\ Len(outputCh) >= 2
    /\ Len(sent) > Len(writeCalls) + 1

\* C15: a root that is a regular file is put to the emit rule itself: the
\* callback is invoked once, on the root path, nothing is listed; one record
\* with the root path as header is sent when the file has an allowed
\* extension, a name the pattern does not match and a path not sent before,
\* and none otherwise.
RegularFileRoot ==
    \A r \in 1..Len(paths) :
        (r < rootIdx /\ Lstat(paths[r]) # 0 /\ ~IsDir(Lstat(paths[r]))) =>
            LET mine == {i \in 1..Len(sent) : sent[i].root = r}
                seen == \E i \in 1..Len(sent) :
                            sent[i].root < r /\ sent[i].path = paths[r]
            IN  /\ Cardinality({i \in 1..Len(visited) : visited[i].root = r}) = 1
                /\ \A i \in 1..Len(visited) :
                      visited[i].root = r => visited[i].path = paths[r]
                /\ Cardinality(mine) =
                      (IF Qualifies(Lstat(paths[r])) /\ ~seen THEN 1 ELSE 0)
                /\ \A i \in mine :
                      sent[i].bytes = Frame(paths[r], Content(Lstat(paths[r])))

\* the file a/g.txt given as a root has been sent, and written, as one record
RegularFileRootWitness ==
    \E i \in 1..Len(sent) :
        /\ paths[sent[i].root] = FullPath(6)
        /\ sent[i].root < rootIdx
        /\ sent[i].path = FullPath(6)
        /\ \E k \in 1..Len(writeCalls) : writeCalls[k].bytes = sent[i].bytes

\* C16: a record's bytes never change once it is sent.  The slice sent shows,
\* at every later moment, the bytes it showed when it was sent, which are the
\* header and content built for its file, however the walker resets and
\* refills its buffer meanwhile; so every file.Write is handed exactly those
\* bytes.
RecordImmutable ==
    /\ \A i \in 1..Len(sent) :
          /\ Deref(sent[i].slice) = sent[i].bytes
          /\ sent[i].bytes = Frame(sent[i].path, Content(sent[i].node))
    /\ \A k \in 1..Len(writeCalls) :
          k <= Len(sent) /\ writeCalls[k].bytes = sent[k].bytes
    /\ sinkPc = "write" =>
          /\ Len(writeCalls) < Len(sent)
          /\ Deref(data) = sent[Len(writeCalls) + 1].bytes

\* the sink holds a record while the walker has already refilled its buffer
\* with a later one, and an earlier record went to the file unchanged
RecordImmutableWitness ==
    /\ sinkPc = "write"
    /\ mainPc = "send"
    /\ Len(writeCalls) >= 1
    /\ buf # <<>>
    /\ heap[BufArr] # Deref(data)
    /\ Len(outputCh) >= 1

\* C17: whenever run has returned after starting the sink goroutine, the
\* channel has been closed and the sink goroutine has terminated.
SinkStoppedOnReturn ==
    (mainPc = "returned" /\ sinkPc # "idle") => (closed /\ sinkPc = "done")

RECURSIVE ExpectedEntries(_)
\* the files roots 1..r are to emit, root after root: the qualifying files of
\* a root in walk order, without those an earlier root has emitted
ExpectedEntries(r) ==
    IF r = 0 THEN <<>>
    ELSE LET prev == ExpectedEntries(r - 1)
             Fresh(e) == IsQualifying(e) /\ \A i \in 1..Len(prev) : prev[i].path # e.path
         IN  prev \o SelectSeq(Reach(paths[r], Lstat(paths[r])), Fresh)

\* the output bytes the roots and the configuration determine
ExpectedOutput ==
    LET e == ExpectedEntries(Len(paths))
    IN  Flatten([i \in 1..Len(e) |-> Frame(e[i].path, Content(e[i].node))])

\* C18: the output does not depend on the schedule.  A run without failures
\* ends, however walker and sink were interleaved, with the same bytes in the
\* file: the records of the first root in walk order, then those of the
\* second root not already emitted, and so on.
ScheduleIndependent ==
    (/\ mainPc = "returned"
     /\ result = "nil"
     /\ RootsExist
     /\ reported = <<>>
     /\ ~WriteFailed)
    => file = ExpectedOutput

\* a run without failures over root a/s and then root a, which contains it:
\* the file holds the records of a/s followed by those of a that a/s did not
\* emit
ScheduleIndependentWitness ==
    /\ mainPc = "returned"
    /\ result = "nil"
    /\ paths = <<FullPath(7), FullPath(1)>>
    /\ reported = <<>>
    /\ ~WriteFailed
    /\ Len(HeaderPaths(file)) >= 5
    /\ file = ExpectedOutput

\* the number of file.Write calls that succeeded
WritesDone == Cardinality({k \in 1..Len(writeCalls) : writeCalls[k].ok})

\* C19: no orphan header.  When the read of a qualifying file has failed
\* after its header was formatted into the buffer, the root that failed sends
\* no record for that file, and the header left behind is in no later record:
\* every record built and sent, by the same or a later root, is the header and
\* content of its own file and nothing else, and the file holds one header
\* per record written.
NoOrphanHeader ==
    \A k \in 1..Len(reported) :
        reported[k].err = "read" =>
            /\ \A i \in 1..Len(sent) :
                  /\ ~(sent[i].root = reported[k].root /\ sent[i].path = reported[k].path)
                  /\ sent[i].bytes = Frame(sent[i].path, Content(sent[i].node))
            /\ mainPc = "send" => buf = Frame(Cur.path, Content(Cur.node))
            /\ WritesDone <= Len(sent)
            /\ HeaderPaths(file) = [j \in 1..WritesDone |-> sent[j].path]

\* a read failed in the first root after its header was formatted; the second
\* root has built and sent records since, and one of them is in the file
NoOrphanHeaderWitness ==
    \E k \in 1..Len(reported) :
        /\ reported[k].err = "read"
        /\ reported[k].root = 1
        /\ \E i \in 1..Len(sent) :
              /\ sent[i].root = 2
              /\ sent[i].path \in Range(HeaderPaths(file))
        /\ mainPc = "send"

====
